---- MODULE Spec2Model ----
(***************************************************************************)
(* Model of src/bot.py: the moderation bot's record store                  *)
(* (DatabaseManager), its update handlers (handle_message,                 *)
(* handle_violation, welcome_new_member, admin_warn) and the daily         *)
(* subscription sweep (check_expired_subscriptions).                       *)
(*                                                                         *)
(* A coroutine is cut at its await points: everything between two awaits   *)
(* runs atomically on the event loop, so each action below is the code     *)
(* from one await's return up to the next await.  The outcome of a         *)
(* transport call (Telegram) or of a store call (MongoDB) is an input of   *)
(* the step that receives it: ok = FALSE is the call raising.              *)
(***************************************************************************)
EXTENDS Integers, Sequences, FiniteSets, Bags, TLC

VARIABLES
    users,          \* db["users"]: user_id -> document, DOMAIN = stored ids
    warnings,       \* db["warnings"]: the bag of its documents
    subscriptions,  \* db["subscriptions"]: user_id -> expiry_date
    group_id,       \* PremiumModerationBot.group_id (GroupNone until the bot joins)
    now,            \* datetime.utcnow(), in days
    tasks,          \* the handler coroutines, one per dispatcher slot
    sweep,          \* the check_expired_subscriptions job
    reply,          \* the last reply_text of an administrator command
    result,         \* how the last call made from outside the handlers ended
    supervisor      \* main(): where it stands, and what it counted

vars == <<users, warnings, subscriptions, group_id, now, tasks, sweep, reply, result, supervisor>>

----------------------------------------------------------------------------
\* Bounds of the model.

MaxWarnings == 3
MaxCount == 3
MaxTime == 2
MaxFailures == 3

UserIds == {1, 2}
One == {1}
Slots == {1, 2}
Days == {1, 2}

----------------------------------------------------------------------------
\* Configuration and constants of the program.

ADMIN_ID == 9
RestartDelay == 30
BOT_ID == 8
None == -1
GroupNone == 0
GroupChat == 7

Bool == {TRUE, FALSE}

----------------------------------------------------------------------------
\* DatabaseManager.  Every operation takes the collections it touches and
\* returns them as the call leaves them; ok = FALSE is pymongo raising
\* PyMongoError, which every operation catches and logs.

NewUser ==
    [warning_count |-> 0, is_muted |-> FALSE, is_banned |-> FALSE,
     subscription_expiry |-> None]

\* find_one: <<>> is Python's None, <<doc>> a found document.
get_user(us, user_id, ok) ==
    IF ok /\ user_id \in DOMAIN us THEN <<us[user_id]>> ELSE <<>>

\* insert_one under the unique index on user_id: a duplicate id raises
\* DuplicateKeyError (a PyMongoError), caught like any other failure.
create_user_replacing(us, user_id, ok) ==
    IF ok THEN [x \in DOMAIN us \cup {user_id} |-> IF x = user_id THEN NewUser ELSE us[x]] ELSE us

create_user(us, user_id, ok) ==
    IF ok /\ user_id \notin DOMAIN us THEN us @@ (user_id :> NewUser) ELSE us

update_user_warning_twice(us, user_id, increment, ok) ==
    IF ok /\ user_id \in DOMAIN us
    THEN [us EXCEPT ![user_id].warning_count = @ + 2]
    ELSE us

update_user_warning_decrementing(us, user_id, increment, ok) ==
    IF ok /\ user_id \in DOMAIN us
    THEN [us EXCEPT ![user_id].warning_count = @ - 1]
    ELSE us

\* update_one without upsert: an id with no document matches nothing.
update_user_warning(us, user_id, increment, ok) ==
    IF ok /\ user_id \in DOMAIN us
    THEN [us EXCEPT ![user_id].warning_count = @ + (IF increment THEN 1 ELSE -1)]
    ELSE us

reset_user_warnings(us, user_id, ok) ==
    IF ok /\ user_id \in DOMAIN us
    THEN [us EXCEPT ![user_id].warning_count = 0]
    ELSE us

set_user_muted(us, user_id, muted, ok) ==
    IF ok /\ user_id \in DOMAIN us
    THEN [us EXCEPT ![user_id].is_muted = muted]
    ELSE us

set_user_banned_unmuting(us, user_id, banned, ok) ==
    IF ok /\ user_id \in DOMAIN us
    THEN [us EXCEPT ![user_id].is_banned = banned, ![user_id].is_muted = FALSE]
    ELSE us

set_user_banned(us, user_id, banned, ok) ==
    IF ok /\ user_id \in DOMAIN us
    THEN [us EXCEPT ![user_id].is_banned = banned]
    ELSE us

add_warning_dropping(ws, user_id, reason, admin_id, ok) ==
    ws

\* A warnings document without its timestamp and its resolved flag, which
\* is always False.
add_warning(ws, user_id, reason, admin_id, ok) ==
    IF ok
    THEN ws (+) SetToBag({[user_id |-> user_id, reason |-> reason, admin_id |-> admin_id]})
    ELSE ws

\* The documents of a user (their order by timestamp is not kept).
WarningsOf(ws, user_id) ==
    [d \in {e \in BagToSet(ws) : e.user_id = user_id} |-> ws[d]]

get_user_warnings(ws, user_id, ok) ==
    IF ok THEN WarningsOf(ws, user_id) ELSE EmptyBag

SetKey(f, k, v) == [x \in DOMAIN f \cup {k} |-> IF x = k THEN v ELSE f[x]]
DelKey(f, k) == [x \in DOMAIN f \ {k} |-> f[x]]

\* fail = 0: both updates run; 1: the subscriptions update raises; 2: the
\* users update raises after the subscriptions update was applied.
add_subscription(us, subs, user_id, days, fail) ==
    LET expiry_date == now + days
        subs1 == IF fail = 1 THEN subs ELSE SetKey(subs, user_id, expiry_date)
        us1 == IF fail = 0 /\ user_id \in DOMAIN us
               THEN [us EXCEPT ![user_id].subscription_expiry = expiry_date]
               ELSE us
    IN  [users |-> us1, subscriptions |-> subs1]

get_expired_subscriptions_inclusive(subs, ok) ==
    IF ok THEN {u \in DOMAIN subs : subs[u] <= now} ELSE {}

get_expired_subscriptions(subs, ok) ==
    IF ok THEN {u \in DOMAIN subs : subs[u] < now} ELSE {}

remove_subscription_keeping_cache(us, subs, user_id, fail) ==
    [users |-> us, subscriptions |-> IF fail = 1 THEN subs ELSE DelKey(subs, user_id)]

remove_subscription(us, subs, user_id, fail) ==
    LET subs1 == IF fail = 1 THEN subs ELSE DelKey(subs, user_id)
        us1 == IF fail = 0 /\ user_id \in DOMAIN us
               THEN [us EXCEPT ![user_id].subscription_expiry = None]
               ELSE us
    IN  [users |-> us1, subscriptions |-> subs1]

----------------------------------------------------------------------------
\* handle_message: the classifier.  A text is a sequence of characters.

UpperCase == <<"A","B","C","D","E","F","G","H","I","J","K","L","M",
               "N","O","P","Q","R","S","T","U","V","W","X","Y","Z">>
LowerCase == <<"a","b","c","d","e","f","g","h","i","j","k","l","m",
               "n","o","p","q","r","s","t","u","v","w","x","y","z">>

LowerMap ==
    [c \in {UpperCase[i] : i \in 1..26} |-> LowerCase[CHOOSE i \in 1..26 : UpperCase[i] = c]]

LowerChar(c) == IF c \in DOMAIN LowerMap THEN LowerMap[c] ELSE c

\* str.lower()
lower(text) == [i \in 1..Len(text) |-> LowerChar(text[i])]

\* term in text
Contains(text, term) ==
    \E i \in 1..(Len(text) - Len(term) + 1) :
        SubSeq(text, i, i + Len(term) - 1) = term

suspicious_terms ==
    { <<"l","e","a","k">>,
      <<"p","i","r","a","t","e">>,
      <<"u","n","a","u","t","h","o","r","i","z","e","d">>,
      <<"s","h","a","r","e">>,
      <<"f","r","e","e">>,
      <<"d","o","w","n","l","o","a","d">> }

\* a or b, for sequences: the empty sequence is falsy
Or(a, b) == IF a # <<>> THEN a ELSE b

NoViolation == "no violation"

\* A classifier that looks for links before it looks at forwarding.
classify_links_first(message) ==
    IF \E i \in DOMAIN Or(message.entities, message.caption_entities) :
            Or(message.entities, message.caption_entities)[i] \in {"url", "text_link"}
    THEN "External link"
    ELSE IF message.forward
    THEN "Forwarded message"
    ELSE IF \E term \in suspicious_terms :
                Contains(lower(Or(message.text, message.caption)), term)
    THEN "Suspicious content"
    ELSE NoViolation

\* The reason handle_message passes to handle_violation for a message not
\* sent by the administrator, NoViolation when it returns without calling it.
classify(message) ==
    IF message.forward
    THEN "Forwarded message"
    ELSE IF \E i \in DOMAIN Or(message.entities, message.caption_entities) :
                Or(message.entities, message.caption_entities)[i] \in {"url", "text_link"}
    THEN "External link"
    ELSE IF \E term \in suspicious_terms :
                Contains(lower(Or(message.text, message.caption)), term)
    THEN "Suspicious content"
    ELSE NoViolation

\* Text and media messages with and without formatting, links and terms, in
\* upper and lower case.
RichMessages ==
    [from : {1, ADMIN_ID}, forward : Bool,
     entities : {<<>>, <<"bold">>, <<"bold", "url">>, <<"text_link">>},
     text : {<<"h","i">>, <<"a"," ","L","e","a","k">>},
     caption_entities : {<<>>}, caption : {<<>>}]
    \cup
    [from : {1, ADMIN_ID}, forward : Bool,
     entities : {<<>>}, text : {<<>>},
     caption_entities : {<<>>, <<"italic", "url">>},
     caption : {<<>>, <<"S","H","A","R","E"," ","i","t">>}]

\* The inbound messages of the model: a text message carries text and
\* entities, a media message caption and caption_entities.
Messages ==
    [from : UserIds \cup {ADMIN_ID}, forward : Bool,
     entities : {<<>>, <<"bold", "url">>}, text : {<<"h","i">>},
     caption_entities : {<<>>}, caption : {<<>>}]
    \cup
    [from : UserIds \cup {ADMIN_ID}, forward : {FALSE},
     entities : {<<>>}, text : {<<>>},
     caption_entities : {<<>>}, caption : {<<"F","r","e","e">>}]

----------------------------------------------------------------------------
\* State of the coroutines.

\* A handler coroutine: pc is the await it is suspended at, deleted whether
\* message.delete() succeeded, sanctioned whether restrict_member or
\* ban_member did, returned the early return handle_message took for the
\* last update ("" when it went on to handle_violation).
Idle ==
    [pc |-> "idle", user |-> 0, reason |-> "", new_warning_count |-> 0, action |-> "",
     deleted |-> FALSE, sanctioned |-> FALSE, returned |-> ""]

\* failed: the ids the except branch of line 612 logged in this sweep.
SweepIdle == [pc |-> "idle", expired_users |-> <<>>, user_id |-> 0, failed |-> {}]

\* The end of a call: the operation, whether the store failed during it,
\* whether an exception left it, and the value it returned.
Returned(op, failed, value) == [op |-> op, failed |-> failed, raised |-> FALSE, value |-> value]

Raised(op, failed) == [op |-> op, failed |-> failed, raised |-> TRUE, value |-> ""]

NoCall == Returned("", FALSE, "")

\* The three values main() checks at line 751.
Config == {"BOT_TOKEN", "ADMIN_ID", "MONGODB_URI"}

\* main(): pc is where the coroutine stands, missing the configuration
\* values that are absent, failures the consecutive exceptions of run() so
\* far (it stops counting at MaxFailures), slept the seconds of the sleep
\* of line 768 that have passed.
Started == [pc |-> "run", missing |-> {}, failures |-> 0, slept |-> 0]

Init ==
    /\ users = <<>>
    /\ warnings = EmptyBag
    /\ subscriptions = <<>>
    /\ group_id = GroupNone
    /\ now = 0
    /\ tasks = [p \in Slots |-> Idle]
    /\ sweep = SweepIdle
    /\ reply = ""
    /\ result = NoCall
    /\ supervisor = Started

store == <<users, warnings, subscriptions>>

\* The warning_count a read of the store gives: 0 without a document.
PersistedCount(user_id) ==
    IF user_id \in DOMAIN users THEN users[user_id].warning_count ELSE 0

----------------------------------------------------------------------------
\* handle_violation, lines 421-538.

\* The branch of lines 447/465/502 taken for a new count.
tier(new_warning_count) ==
    IF new_warning_count = 1 THEN "WARNING"
    ELSE IF new_warning_count = 2 THEN "MUTE"
    ELSE IF new_warning_count >= 3 THEN "BAN"
    ELSE "NONE"

\* The await the coroutine reaches after lines 442-447.
TierPc(new_warning_count) ==
    CASE tier(new_warning_count) = "WARNING" -> "send_warning"
      [] tier(new_warning_count) = "MUTE" -> "restrict"
      [] tier(new_warning_count) = "BAN" -> "ban"
      [] OTHER -> "notify"

\* Lines 424-438 with delete_message = True: the snapshot of the count is
\* taken, then the coroutine awaits update.message.delete().
handle_violation(p, user, reason, getOk) ==
    LET user_data == get_user(users, user, getOk)
        current_warnings == IF user_data = <<>> THEN 0 ELSE user_data[1].warning_count
    IN  /\ BagCardinality(warnings) < MaxWarnings
        /\ PersistedCount(user) < MaxCount
        /\ tasks' = [tasks EXCEPT ![p] =
                        [pc |-> "delete", user |-> user, reason |-> reason,
                         new_warning_count |-> current_warnings + 1, action |-> "",
                         deleted |-> FALSE, sanctioned |-> FALSE, returned |-> ""]]

\* handle_message, lines 378-419.
\* A handle_message without the check of line 387.
handle_message_no_exemption(p, message, getOk) ==
    /\ tasks[p].pc = "idle"
    /\ IF classify(message) = NoViolation
       THEN tasks' = [tasks EXCEPT ![p] = [Idle EXCEPT !.returned = NoViolation]]
       ELSE handle_violation(p, message.from, classify(message), getOk)
    /\ UNCHANGED <<store, group_id, now, sweep, reply, result, supervisor>>

handle_message(p, message, getOk) ==
    /\ tasks[p].pc = "idle"
    /\ IF message.from = ADMIN_ID
       THEN tasks' = [tasks EXCEPT ![p] = [Idle EXCEPT !.returned = "admin"]]
       ELSE IF classify(message) = NoViolation
       THEN tasks' = [tasks EXCEPT ![p] = [Idle EXCEPT !.returned = NoViolation]]
       ELSE handle_violation(p, message.from, classify(message), getOk)
    /\ UNCHANGED <<store, group_id, now, sweep, reply, result, supervisor>>

\* Lines 438-447: delete() returned or raised (caught); the Warning is
\* recorded, the count incremented and the tier of the snapshot dispatched.
record_warning(p, delOk, addOk, incOk) ==
    /\ tasks[p].pc = "delete"
    /\ warnings' = add_warning(warnings, tasks[p].user, tasks[p].reason, ADMIN_ID, addOk)
    /\ users' = update_user_warning(users, tasks[p].user, TRUE, incOk)
    /\ tasks' = [tasks EXCEPT ![p].pc = TierPc(tasks[p].new_warning_count),
                              ![p].deleted = delOk]
    /\ UNCHANGED <<subscriptions, group_id, now, sweep, reply, result, supervisor>>

\* Lines 457-463: the warning notice is sent outside any try, so a failed
\* send leaves handle_violation by exception.
send_warning(p, ok) ==
    /\ tasks[p].pc = "send_warning"
    /\ IF ok
       THEN tasks' = [tasks EXCEPT ![p].pc = "notify", ![p].action = "WARNING"]
       ELSE tasks' = [tasks EXCEPT ![p] = Idle]
    /\ UNCHANGED <<store, group_id, now, sweep, reply, result, supervisor>>

restrict_member_rollback(p, ok) ==
    /\ tasks[p].pc = "restrict"
    /\ IF ok
       THEN /\ tasks' = [tasks EXCEPT ![p].pc = "send_mute", ![p].sanctioned = TRUE]
            /\ users' = users
       ELSE /\ tasks' = [tasks EXCEPT ![p].pc = "notify", ![p].action = "MUTE_FAILED"]
            /\ users' = update_user_warning(users, tasks[p].user, FALSE, TRUE)
    /\ UNCHANGED <<warnings, subscriptions, group_id, now, sweep, reply, result, supervisor>>

\* Lines 469-479 and 498-500.
restrict_member(p, ok) ==
    /\ tasks[p].pc = "restrict"
    /\ IF ok
       THEN tasks' = [tasks EXCEPT ![p].pc = "send_mute", ![p].sanctioned = TRUE]
       ELSE tasks' = [tasks EXCEPT ![p].pc = "notify", ![p].action = "MUTE_FAILED"]
    /\ UNCHANGED <<store, group_id, now, sweep, reply, result, supervisor>>

\* Lines 489-500.
send_mute(p, ok, setOk) ==
    /\ tasks[p].pc = "send_mute"
    /\ IF ok
       THEN /\ users' = set_user_muted(users, tasks[p].user, TRUE, setOk)
            /\ tasks' = [tasks EXCEPT ![p].pc = "notify", ![p].action = "MUTE"]
       ELSE /\ users' = users
            /\ tasks' = [tasks EXCEPT ![p].pc = "notify", ![p].action = "MUTE_FAILED"]
    /\ UNCHANGED <<warnings, subscriptions, group_id, now, sweep, reply, result, supervisor>>

\* Lines 504-505 and 524-526.
ban_member(p, ok) ==
    /\ tasks[p].pc = "ban"
    /\ IF ok
       THEN tasks' = [tasks EXCEPT ![p].pc = "send_ban", ![p].sanctioned = TRUE]
       ELSE tasks' = [tasks EXCEPT ![p].pc = "notify", ![p].action = "BAN_FAILED"]
    /\ UNCHANGED <<store, group_id, now, sweep, reply, result, supervisor>>

\* Lines 515-526.
send_ban(p, ok, setOk) ==
    /\ tasks[p].pc = "send_ban"
    /\ IF ok
       THEN /\ users' = set_user_banned(users, tasks[p].user, TRUE, setOk)
            /\ tasks' = [tasks EXCEPT ![p].pc = "notify", ![p].action = "BAN"]
       ELSE /\ users' = users
            /\ tasks' = [tasks EXCEPT ![p].pc = "notify", ![p].action = "BAN_FAILED"]
    /\ UNCHANGED <<warnings, subscriptions, group_id, now, sweep, reply, result, supervisor>>

\* Lines 528-538: the last await of handle_violation.  notify_admin (lines
\* 540-549) sends the alert built from the coroutine's user, reason,
\* new_warning_count and action, and logs a failed send.
notify_violation(p) ==
    /\ tasks[p].pc = "notify"
    /\ tasks' = [tasks EXCEPT ![p] = Idle]
    /\ UNCHANGED <<store, group_id, now, sweep, reply, result, supervisor>>

----------------------------------------------------------------------------
\* welcome_new_member, lines 327-376, for an update with one new member.
\* Its awaits (reply_text, notify_admin) follow the only store call and
\* touch nothing the model keeps, so the handler is one step.

People == [id : UserIds, is_bot : Bool]
Members == People \cup {[id |-> BOT_ID, is_bot |-> TRUE]}

welcome_new_member(p, member, ok) ==
    /\ tasks[p].pc = "idle"
    /\ IF member.id = BOT_ID
       THEN /\ group_id' = GroupChat
            /\ users' = users
       ELSE IF member.is_bot
       THEN UNCHANGED <<group_id, users>>
       ELSE /\ users' = create_user(users, member.id, ok)
            /\ group_id' = group_id
    /\ UNCHANGED <<warnings, subscriptions, now, tasks, sweep, reply, result, supervisor>>

----------------------------------------------------------------------------
\* admin_warn, lines 646-686.  context.args is a sequence of words, a word a
\* sequence of characters.

DigitChars == <<"0","1","2","3","4","5","6","7","8","9">>
IsDigit(c) == \E i \in 1..10 : DigitChars[i] = c
DigitValue(c) == (CHOOSE i \in 1..10 : DigitChars[i] = c) - 1

\* int(word) raises ValueError unless the word is a decimal numeral.
IsInt(word) == word # <<>> /\ \A i \in 1..Len(word) : IsDigit(word[i])

RECURSIVE int(_)
int(word) ==
    IF word = <<>> THEN 0
    ELSE 10 * int(SubSeq(word, 1, Len(word) - 1)) + DigitValue(word[Len(word)])

Args ==
    { <<>>, << <<"1">> >>, << <<"1">>, <<"s","p","a","m">> >>,
      << <<"2">>, <<"s","p","a","m">> >>, << <<"x">>, <<"s","p","a","m">> >> }

\* Lines 661-676 build Update(update_id, message=MockMessage()) and pass it
\* to handle_violation.  MockMessage has only message_id and delete: the
\* mock update carries no user and no chat, and user_id is not handed over.
\* handle_violation reads update.effective_user (line 424) and user.id (line
\* 428) before its first store call, which raises AttributeError on this
\* update; admin_warn catches it at line 684 and replies.
admin_warn(p, from, args) ==
    /\ tasks[p].pc = "idle"
    /\ IF from # ADMIN_ID
       THEN reply' = reply
       ELSE IF Len(args) < 2
       THEN reply' = "Usage: /warn <user_id> <reason>"
       ELSE IF ~IsInt(args[1])
       THEN reply' = "Invalid user ID"
       ELSE reply' = "Error issuing warning"
    /\ UNCHANGED <<store, group_id, now, tasks, sweep, result, supervisor>>

\* An admin_stats without its try block: a failing count_documents leaves
\* the handler.
admin_stats_unguarded(p, from, storeOk, sendOk, errSendOk) ==
    /\ tasks[p].pc = "idle"
    /\ IF from # ADMIN_ID
       THEN reply' = reply /\ result' = Returned("admin_stats", FALSE, "None")
       ELSE IF storeOk /\ sendOk
       THEN reply' = "Bot Statistics" /\ result' = Returned("admin_stats", FALSE, "None")
       ELSE reply' = reply /\ result' = Raised("admin_stats", ~storeOk)
    /\ UNCHANGED <<store, group_id, now, tasks, sweep, supervisor>>

\* admin_stats, lines 614-644.  storeOk: the four count_documents calls
\* return; sendOk: the reply_text of line 637 returns; errSendOk: the
\* reply_text of line 644, in the except branch and outside any try, returns.
admin_stats(p, from, storeOk, sendOk, errSendOk) ==
    /\ tasks[p].pc = "idle"
    /\ IF from # ADMIN_ID
       THEN reply' = reply /\ result' = Returned("admin_stats", FALSE, "None")
       ELSE IF storeOk /\ sendOk
       THEN reply' = "Bot Statistics" /\ result' = Returned("admin_stats", FALSE, "None")
       ELSE IF errSendOk
       THEN /\ reply' = "Error fetching statistics"
            /\ result' = Returned("admin_stats", ~storeOk, "None")
       ELSE reply' = reply /\ result' = Raised("admin_stats", ~storeOk)
    /\ UNCHANGED <<store, group_id, now, tasks, sweep, supervisor>>

----------------------------------------------------------------------------
\* check_expired_subscriptions, lines 576-612.

\* The orders in which the cursor of find() may yield a set of documents.
Orders(S) ==
    {s \in [1..Cardinality(S) -> S] : \A i, j \in 1..Cardinality(S) : s[i] = s[j] => i = j}

\* Lines 583-588: the loop skips (continue) every user whose get_user gives
\* None, down to the first one it awaits ban_chat_member for.  failing are
\* the ids for which get_user raises during this stretch.
RECURSIVE NextToBan(_, _)
NextToBan(expired_users, failing) ==
    IF expired_users = <<>> THEN <<>>
    ELSE IF get_user(users', Head(expired_users), Head(expired_users) \notin failing) = <<>>
    THEN NextToBan(Tail(expired_users), failing)
    ELSE expired_users

SweepAt(expired_users, failed) ==
    IF expired_users = <<>> THEN SweepIdle
    ELSE [pc |-> "ban", expired_users |-> expired_users, user_id |-> Head(expired_users),
          failed |-> failed]

\* Lines 578-594, up to the first await.
check_expired_subscriptions(ok, order, failing) ==
    /\ sweep.pc = "idle"
    /\ UNCHANGED <<store, group_id, now, tasks, reply, result, supervisor>>
    /\ IF group_id = GroupNone
       THEN sweep' = sweep
       ELSE /\ order \in Orders(get_expired_subscriptions(subscriptions, ok))
            /\ sweep' = SweepAt(NextToBan(order, failing), {})

\* A sweep whose loop ends at the first ban_chat_member that raises.
sweep_ban_aborting(ok, remFail, setOk, failing) ==
    /\ sweep.pc = "ban"
    /\ IF ok
       THEN LET removed == remove_subscription(users, subscriptions, sweep.user_id, remFail)
            IN  /\ subscriptions' = removed.subscriptions
                /\ users' = set_user_banned(removed.users, sweep.user_id, TRUE, setOk)
                /\ sweep' = [sweep EXCEPT !.pc = "notify"]
       ELSE /\ UNCHANGED <<subscriptions, users>>
            /\ sweep' = SweepIdle
    /\ UNCHANGED <<warnings, group_id, now, tasks, reply, result, supervisor>>

\* Lines 591-598 and 611-612: ban_chat_member returned or raised.
sweep_ban(ok, remFail, setOk, failing) ==
    /\ sweep.pc = "ban"
    /\ IF ok
       THEN LET removed == remove_subscription(users, subscriptions, sweep.user_id, remFail)
            IN  /\ subscriptions' = removed.subscriptions
                /\ users' = set_user_banned(removed.users, sweep.user_id, TRUE, setOk)
                /\ sweep' = [sweep EXCEPT !.pc = "notify"]
       ELSE /\ UNCHANGED <<subscriptions, users>>
            /\ sweep' = SweepAt(NextToBan(Tail(sweep.expired_users), failing),
                                sweep.failed \cup {sweep.user_id})
    /\ UNCHANGED <<warnings, group_id, now, tasks, reply, result, supervisor>>

\* Lines 600-609: notify_admin returned; the loop goes on.
sweep_notify(failing) ==
    /\ sweep.pc = "notify"
    /\ UNCHANGED <<store, group_id, now, tasks, reply, result, supervisor>>
    /\ sweep' = SweepAt(NextToBan(Tail(sweep.expired_users), failing), sweep.failed)

\* The process is stopped and started again: what the objects held in
\* memory is lost (group_id is None again, line 294; no coroutine is left),
\* the store is kept.
restart ==
    /\ group_id' = GroupNone
    /\ tasks' = [p \in Slots |-> Idle]
    /\ sweep' = SweepIdle
    /\ UNCHANGED <<store, now, reply, result, supervisor>>

----------------------------------------------------------------------------
\* DatabaseManager operations no handler calls: the operator's own tooling
\* calls them on the same store.

call_add_subscription(user_id, days, fail) ==
    LET added == add_subscription(users, subscriptions, user_id, days, fail)
    IN  /\ users' = added.users
        /\ subscriptions' = added.subscriptions
        /\ UNCHANGED <<warnings, group_id, now, tasks, sweep, reply, supervisor>>

call_reset_user_warnings(user_id, ok) ==
    /\ users' = reset_user_warnings(users, user_id, ok)
    /\ UNCHANGED <<warnings, subscriptions, group_id, now, tasks, sweep, reply, supervisor>>

\* The same operations called by a caller that looks at what comes back.
\* Each ends in the return of its try block or of its except branch.

Str(b) == IF b THEN "True" ELSE "False"

call_get_user(user_id, ok) ==
    /\ result' = Returned("get_user", ~ok,
                          IF get_user(users, user_id, ok) = <<>> THEN "None" ELSE "document")
    /\ UNCHANGED <<store, group_id, now, tasks, sweep, reply, supervisor>>

call_create_user(user_id, ok) ==
    /\ users' = create_user(users, user_id, ok)
    /\ result' = Returned("create_user", ~ok, "None")
    /\ UNCHANGED <<warnings, subscriptions, group_id, now, tasks, sweep, reply, supervisor>>

\* Line 174: result.modified_count > 0.
call_update_user_warning(user_id, ok) ==
    /\ PersistedCount(user_id) < MaxCount
    /\ users' = update_user_warning(users, user_id, TRUE, ok)
    /\ result' = Returned("update_user_warning", ~ok, Str(ok /\ user_id \in DOMAIN users))
    /\ UNCHANGED <<warnings, subscriptions, group_id, now, tasks, sweep, reply, supervisor>>

call_set_user_muted(user_id, ok) ==
    /\ users' = set_user_muted(users, user_id, TRUE, ok)
    /\ result' = Returned("set_user_muted", ~ok, "None")
    /\ UNCHANGED <<warnings, subscriptions, group_id, now, tasks, sweep, reply, supervisor>>

call_set_user_banned(user_id, ok) ==
    /\ users' = set_user_banned(users, user_id, TRUE, ok)
    /\ result' = Returned("set_user_banned", ~ok, "None")
    /\ UNCHANGED <<warnings, subscriptions, group_id, now, tasks, sweep, reply, supervisor>>

\* admin_id keeps its default, 0.
call_add_warning(user_id, ok) ==
    /\ BagCardinality(warnings) < MaxWarnings
    /\ warnings' = add_warning(warnings, user_id, "manual", 0, ok)
    /\ result' = Returned("add_warning", ~ok, "None")
    /\ UNCHANGED <<users, subscriptions, group_id, now, tasks, sweep, reply, supervisor>>

call_get_user_warnings_raising(user_id, ok) ==
    /\ result' = IF ok
                 THEN Returned("get_user_warnings", FALSE,
                               IF get_user_warnings(warnings, user_id, ok) = EmptyBag
                               THEN "[]" ELSE "list")
                 ELSE Raised("get_user_warnings", TRUE)
    /\ UNCHANGED <<store, group_id, now, tasks, sweep, reply, supervisor>>

call_get_user_warnings(user_id, ok) ==
    /\ result' = Returned("get_user_warnings", ~ok,
                          IF get_user_warnings(warnings, user_id, ok) = EmptyBag
                          THEN "[]" ELSE "list")
    /\ UNCHANGED <<store, group_id, now, tasks, sweep, reply, supervisor>>

call_get_expired_subscriptions(ok) ==
    /\ result' = Returned("get_expired_subscriptions", ~ok,
                          IF get_expired_subscriptions(subscriptions, ok) = {}
                          THEN "[]" ELSE "list")
    /\ UNCHANGED <<store, group_id, now, tasks, sweep, reply, supervisor>>

call_remove_subscription(user_id, fail) ==
    LET removed == remove_subscription(users, subscriptions, user_id, fail)
    IN  /\ users' = removed.users
        /\ subscriptions' = removed.subscriptions
        /\ result' = Returned("remove_subscription", fail # 0, "None")
        /\ UNCHANGED <<warnings, group_id, now, tasks, sweep, reply, supervisor>>

\* A day passes.
Tick ==
    /\ now < MaxTime
    /\ now' = now + 1
    /\ UNCHANGED <<store, group_id, tasks, sweep, reply, result, supervisor>>

----------------------------------------------------------------------------
\* main(), lines 748-768, and what it calls.

handlers == <<group_id, tasks, sweep, reply, result>>

\* Lines 750-756: main returns when a configuration value is missing.
main ==
    /\ supervisor.pc = "validate"
    /\ supervisor' = [supervisor EXCEPT !.pc = IF supervisor.missing # {} THEN "returned"
                                               ELSE "construct"]
    /\ UNCHANGED <<store, now, handlers>>

\* Line 759: PremiumModerationBot() builds the DatabaseManager, whose
\* connect raises once its three attempts have failed (lines 108-111); the
\* exception leaves main, which has no try around line 759.
construct(connected) ==
    /\ supervisor.pc = "construct"
    /\ supervisor' = [supervisor EXCEPT !.pc = IF connected THEN "run" ELSE "fatal"]
    /\ UNCHANGED <<store, now, handlers>>

\* A supervisor that gives up at the second exception of run().
run_giving_up ==
    /\ supervisor.pc = "run"
    /\ supervisor' = [supervisor EXCEPT
                         !.pc = IF supervisor.failures >= 1 THEN "fatal" ELSE "sleep",
                         !.failures = IF @ < MaxFailures THEN @ + 1 ELSE @,
                         !.slept = 0]
    /\ UNCHANGED <<store, now, handlers>>

\* Lines 763-767: await bot.run().  run() builds the application and calls
\* setup_handlers, whose line 717 evaluates datetime.time(hour=0, minute=0)
\* with datetime the class imported at line 11: a TypeError, raised before
\* the first await of run().  The except of line 765 catches it and main
\* goes to the sleep of line 768.
run ==
    /\ supervisor.pc = "run"
    /\ supervisor' = [supervisor EXCEPT
                         !.pc = "sleep",
                         !.failures = IF @ < MaxFailures THEN @ + 1 ELSE @,
                         !.slept = 0]
    /\ UNCHANGED <<store, now, handlers>>

\* Line 768: a second of asyncio.sleep(RestartDelay) passes.
sleep ==
    /\ supervisor.pc = "sleep"
    /\ supervisor.slept < RestartDelay
    /\ supervisor' = [supervisor EXCEPT !.slept = @ + 1]
    /\ UNCHANGED <<store, now, handlers>>

\* Lines 768 and 762: the sleep is over and the loop calls run() again.
run_again ==
    /\ supervisor.pc = "sleep"
    /\ supervisor.slept = RestartDelay
    /\ supervisor' = [supervisor EXCEPT !.pc = "run"]
    /\ UNCHANGED <<store, now, handlers>>

----------------------------------------------------------------------------
\* Specifications.

ViolationStep(p, messages) ==
    \/ \E message \in messages, getOk \in Bool : handle_message(p, message, getOk)
    \/ \E delOk, addOk, incOk \in Bool : record_warning(p, delOk, addOk, incOk)
    \/ \E ok \in Bool : send_warning(p, ok)
    \/ \E ok \in Bool : restrict_member(p, ok)
    \/ \E ok, setOk \in Bool : send_mute(p, ok, setOk)
    \/ \E ok \in Bool : ban_member(p, ok)
    \/ \E ok, setOk \in Bool : send_ban(p, ok, setOk)
    \/ notify_violation(p)

JoinStep(p, members) ==
    \E member \in members, ok \in Bool : welcome_new_member(p, member, ok)

CommandStep(p, argss) ==
    \E from \in UserIds \cup {ADMIN_ID}, args \in argss : admin_warn(p, from, args)

StatsStep(p) ==
    \E from \in One \cup {ADMIN_ID}, storeOk, sendOk, errSendOk \in Bool :
        admin_stats(p, from, storeOk, sendOk, errSendOk)

JobStep(ids) ==
    \/ \E ok \in Bool, order \in UNION {Orders(S) : S \in SUBSET ids},
          failing \in SUBSET ids : check_expired_subscriptions(ok, order, failing)
    \/ \E ok, setOk \in Bool, remFail \in 0..2, failing \in SUBSET ids :
          sweep_ban(ok, remFail, setOk, failing)
    \/ \E failing \in SUBSET ids : sweep_notify(failing)

AddSubscriptionStep(ids, dayss) ==
    \E user_id \in ids, days \in dayss, fail \in 0..2 :
        call_add_subscription(user_id, days, fail) /\ UNCHANGED result

ResetStep(ids) ==
    \E user_id \in ids, ok \in Bool : call_reset_user_warnings(user_id, ok) /\ UNCHANGED result

\* Escalation: the dispatcher processes one update at a time (slot 1).
Next == ViolationStep(1, Messages) \/ JoinStep(1, People)

Spec == Init /\ [][Next]_vars

\* Updates dispatched concurrently, a handler per slot; every message is a
\* forwarded one, and user 1 is the one who joins.
Forwarded == {m \in Messages : m.forward /\ m.entities = <<>>}

NextConc ==
    \E p \in Slots :
        ViolationStep(p, Forwarded) \/ JoinStep(p, {m \in People : m.id \in One})

SpecConc == Init /\ [][NextConc]_vars

\* Subscriptions: the job queue runs the sweep while days pass and
\* subscriptions are added.
NextSub ==
    \/ JoinStep(1, Members)
    \/ JobStep(UserIds)
    \/ AddSubscriptionStep(UserIds, Days)
    \/ Tick
    \/ restart

SpecSub == Init /\ [][NextSub]_vars

\* Everything that writes the users collection, for one user: the
\* handlers, the command (with a well-formed user id), the job and the
\* store operations (subscriptions of one day) interleaved.

NextAll ==
    \/ ViolationStep(1, {m \in Forwarded : m.from \in One \cup {ADMIN_ID}})
    \/ JoinStep(1, {m \in Members : m.id \in One \cup {BOT_ID}})
    \/ CommandStep(1, {args \in Args : Len(args) >= 2 /\ IsInt(args[1])})
    \/ ResetStep(One)
    \/ JobStep(One)
    \/ AddSubscriptionStep(One, {1})
    \/ Tick

SpecAll == Init /\ [][NextAll]_vars

StoreStep(ids, dayss) ==
    \/ \E user_id \in ids, ok \in Bool : call_get_user(user_id, ok)
    \/ \E user_id \in ids, ok \in Bool : call_create_user(user_id, ok)
    \/ \E user_id \in ids, ok \in Bool : call_update_user_warning(user_id, ok)
    \/ \E user_id \in ids, ok \in Bool :
          call_reset_user_warnings(user_id, ok)
          /\ result' = Returned("reset_user_warnings", ~ok, "None")
    \/ \E user_id \in ids, ok \in Bool : call_set_user_muted(user_id, ok)
    \/ \E user_id \in ids, ok \in Bool : call_set_user_banned(user_id, ok)
    \/ \E user_id \in ids, ok \in Bool : call_add_warning(user_id, ok)
    \/ \E user_id \in ids, ok \in Bool : call_get_user_warnings(user_id, ok)
    \/ \E user_id \in ids, days \in dayss, fail \in 0..2 :
          call_add_subscription(user_id, days, fail)
          /\ result' = Returned("add_subscription", fail # 0, "None")
    \/ \E ok \in Bool : call_get_expired_subscriptions(ok)
    \/ \E user_id \in ids, fail \in 0..2 : call_remove_subscription(user_id, fail)

\* The Record Store by itself: the eleven operations of DatabaseManager
\* called for one user while days pass.
NextStore == StoreStep(One, {1}) \/ Tick

SpecStore == Init /\ [][NextStore]_vars

\* The administrator's commands between the messages and joins of user 1.
NextCommands ==
    \/ CommandStep(1, Args)
    \/ StatsStep(1)
    \/ ViolationStep(1, {m \in Forwarded : m.from \in One})
    \/ JoinStep(1, {m \in People : m.id \in One})

SpecCommands == Init /\ [][NextCommands]_vars

\* The process from its start: any of the configuration values may be
\* missing.  The event loop runs main whenever it can take a step.
InitMain ==
    /\ users = <<>>
    /\ warnings = EmptyBag
    /\ subscriptions = <<>>
    /\ group_id = GroupNone
    /\ now = 0
    /\ tasks = [p \in Slots |-> Idle]
    /\ sweep = SweepIdle
    /\ reply = ""
    /\ result = NoCall
    /\ supervisor \in {[pc |-> "validate", missing |-> m, failures |-> 0, slept |-> 0] :
                          m \in SUBSET Config}

NextMain ==
    \/ main
    \/ \E connected \in Bool : construct(connected)
    \/ run
    \/ sleep
    \/ run_again

SpecMain == InitMain /\ [][NextMain]_vars /\ WF_vars(NextMain)

\* Classification: messages of every shape from user 1 and from the
\* administrator.
NextClassify == ViolationStep(1, RichMessages) \/ JoinStep(1, {m \in People : m.id \in One})

SpecClassify == Init /\ [][NextClassify]_vars

----------------------------------------------------------------------------
\* Properties.

NumWarnings(ws, user_id) == BagCardinality(WarningsOf(ws, user_id))

\* The run in slot p read the count the store still holds.
SnapshotCurrent(p) ==
    tasks[p].new_warning_count = PersistedCount(tasks[p].user) + 1

\* C1: violations of a user handled one after another take the count from c
\* to c + 1 and dispatch the tier of c + 1, so that from count 0 the tiers
\* are WARNING, MUTE, BAN and BAN again ever after.
C1_TiersFollowCount ==
    [][\A delOk \in Bool :
          (record_warning(1, delOk, TRUE, TRUE) /\ SnapshotCurrent(1))
          => /\ PersistedCount(tasks[1].user)' = PersistedCount(tasks[1].user) + 1
             /\ tasks'[1].pc = TierPc(PersistedCount(tasks[1].user)')]_vars

\* C2: steps 1-5 of violation handling are mutually exclusive per user: no
\* two runs for the same user (one with a user record) are between the read
\* of the count (step 1) and its increment (step 4) at the same time.
C2_MutualExclusion ==
    \A p, q \in Slots :
        (p # q /\ tasks[p].pc = "delete" /\ tasks[q].pc = "delete"
         /\ tasks[p].user \in DOMAIN users)
        => tasks[p].user # tasks[q].user

\* C3, as claimed: every detected violation adds exactly one Warning record
\* for the violating user.
C3_EveryViolationRecorded ==
    [][\A delOk, addOk, incOk \in Bool :
          record_warning(1, delOk, addOk, incOk)
          => NumWarnings(warnings', tasks[1].user) = NumWarnings(warnings, tasks[1].user) + 1]_vars

\* C3, amended: a detected violation whose insert into warnings does not
\* fail adds exactly one Warning record for the violating user, carrying the
\* reason, and no later step of the run (a failed or successful delete,
\* notice, restrict or ban) or of any other handler removes a record.
C3_RecordedUnlessInsertFails ==
    [][/\ \A delOk, incOk \in Bool :
             record_warning(1, delOk, TRUE, incOk)
             => /\ NumWarnings(warnings', tasks[1].user) = NumWarnings(warnings, tasks[1].user) + 1
                /\ \E d \in BagToSet(warnings') :
                      /\ d.user_id = tasks[1].user /\ d.reason = tasks[1].reason
                      /\ CopiesIn(d, warnings') = CopiesIn(d, warnings) + 1
       /\ \A ok \in Bool :
             (send_warning(1, ok) \/ restrict_member(1, ok) \/ ban_member(1, ok)
              \/ send_mute(1, ok, TRUE) \/ send_ban(1, ok, TRUE) \/ notify_violation(1))
             => warnings' = warnings
       /\ \A d \in BagToSet(warnings) : CopiesIn(d, warnings') >= CopiesIn(d, warnings)]_vars

\* A run whose restrict call failed, with its Warning record in the store.
C3_Witness ==
    /\ tasks[1].pc = "notify" /\ tasks[1].action = "MUTE_FAILED" /\ ~tasks[1].sanctioned
    /\ NumWarnings(warnings, tasks[1].user) >= 1

\* C5: every run of handle_violation ends with the attempt to notify the
\* administrator, whatever failed before: a run is left only from its last
\* await, the one in notify_admin.
C5_AlwaysNotifies ==
    [][(tasks[1].pc # "idle" /\ tasks'[1].pc = "idle") => tasks[1].pc = "notify"]_vars

\* C6: a failed restrict call gives the outcome MUTE_FAILED and a failed ban
\* call BAN_FAILED, and neither the failing step nor the notification after
\* it changes the warnings, the warning_count or the flags in the store.
C6_FailedSanctionKeepsStore ==
    [][/\ restrict_member(1, FALSE)
            => tasks'[1].action = "MUTE_FAILED" /\ tasks'[1].pc = "notify" /\ UNCHANGED store
       /\ ban_member(1, FALSE)
            => tasks'[1].action = "BAN_FAILED" /\ tasks'[1].pc = "notify" /\ UNCHANGED store
       /\ (notify_violation(1) /\ ~tasks[1].sanctioned
           /\ tasks[1].action \in {"MUTE_FAILED", "BAN_FAILED"})
            => UNCHANGED store]_vars

\* A run whose ban call failed after the count was incremented to 3.
C6_Witness ==
    /\ tasks[1].pc = "notify" /\ tasks[1].action = "BAN_FAILED" /\ ~tasks[1].sanctioned
    /\ tasks[1].user \in DOMAIN users
    /\ users[tasks[1].user].warning_count = 3
    /\ ~users[tasks[1].user].is_banned
    /\ NumWarnings(warnings, tasks[1].user) = 3

\* C4: a user's persisted warning_count is never negative, and no step
\* lowers it except reset_user_warnings.
C4_CountNeverDecreases ==
    [][\A u \in DOMAIN users' :
          /\ users'[u].warning_count >= 0
          /\ (u \in DOMAIN users /\ users'[u].warning_count < users[u].warning_count)
             => \E ok \in Bool : call_reset_user_warnings(u, ok)]_vars

\* A muted user (the count was 2 when the mute was dispatched) whose count a
\* reset took back to 0, with an expired subscription the sweep removed.
C4_Witness ==
    /\ 1 \in DOMAIN users
    /\ users[1].is_muted /\ users[1].is_banned
    /\ users[1].warning_count = 0
    /\ sweep.pc = "notify" /\ sweep.user_id = 1

Max(a, b) == IF a >= b THEN a ELSE b

\* C7: add_subscription is additive: the new expiry is now + days without a
\* subscription and max(now, existing expiry) + days with one.
C7_AdditiveExtension ==
    [][\A u \in UserIds, days \in Days :
          call_add_subscription(u, days, 0)
          => subscriptions'[u] =
                IF u \in DOMAIN subscriptions
                THEN Max(now, subscriptions[u]) + days
                ELSE now + days]_vars

\* The subscription_expiry cache of every user document agrees with the
\* subscriptions collection, and every subscription belongs to a user document.
CacheConsistent ==
    /\ \A u \in DOMAIN users :
          users[u].subscription_expiry =
              IF u \in DOMAIN subscriptions THEN subscriptions[u] ELSE None
    /\ DOMAIN subscriptions \subseteq DOMAIN users

\* C8: after every completed add_subscription, remove_subscription (the
\* sweep's) and create_user, the cache is consistent.
C8_CacheConsistentAfterMutation ==
    [][(\/ \E u \in UserIds, days \in Days : call_add_subscription(u, days, 0)
        \/ \E setOk \in Bool, failing \in SUBSET UserIds : sweep_ban(TRUE, 0, setOk, failing)
        \/ \E member \in People : welcome_new_member(1, member, TRUE))
       => CacheConsistent']_vars

\* f"Admin manual: {reason}" for the reasons of Args.
AdminManual(words) ==
    IF words = << <<"s","p","a","m">> >> THEN "Admin manual: spam" ELSE "Admin manual: "

\* C9: warn <user_id> <reason> from the administrator records a Warning
\* with reason 'Admin manual: <reason>' for that user id and increments that
\* user's warning_count.
C9_WarnReachesUser ==
    [][\A args \in Args :
          (admin_warn(1, ADMIN_ID, args) /\ Len(args) >= 2 /\ IsInt(args[1]))
          => /\ NumWarnings(warnings', int(args[1])) = NumWarnings(warnings, int(args[1])) + 1
             /\ \E d \in BagToSet(warnings') :
                   d.user_id = int(args[1]) /\ d.reason = AdminManual(Tail(args))
             /\ int(args[1]) \in DOMAIN users
                => users'[int(args[1])].warning_count = users[int(args[1])].warning_count + 1]_vars

Range(seq) == {seq[i] : i \in DOMAIN seq}

\* C10: with no call failing, the sweep attempts the removal of every user
\* id get_expired_subscriptions returned: none leaves the list before its
\* ban_chat_member call, and after the call the user's subscription is
\* cleared and the administrator notified.
C10_SweepBansEveryExpired ==
    [][/\ \A order \in UNION {Orders(S) : S \in SUBSET UserIds} :
             (check_expired_subscriptions(TRUE, order, {}) /\ group_id # GroupNone)
             => Range(sweep'.expired_users) = get_expired_subscriptions(subscriptions, TRUE)
       /\ (sweep_notify({}) \/ \E ok, setOk \in Bool, remFail \in 0..2 : sweep_ban(FALSE, remFail, setOk, {}))
             => Range(sweep'.expired_users) = Range(Tail(sweep.expired_users))
       /\ sweep_ban(TRUE, 0, TRUE, {})
             => /\ sweep.user_id \notin DOMAIN subscriptions'
                /\ users'[sweep.user_id].is_banned
                /\ sweep'.pc = "notify"]_vars

\* The user document and the Subscription record of user_id.
RecordsOf(user_id) ==
    <<IF user_id \in DOMAIN users THEN <<users[user_id]>> ELSE <<>>,
      IF user_id \in DOMAIN subscriptions THEN <<subscriptions[user_id]>> ELSE <<>> >>

IsSuffix(s, t) == \E k \in 0..Len(t) : s = SubSeq(t, k + 1, Len(t))

\* The loop goes on with the ids after the current one: it stands at a later
\* id of the list, and every id it passed on the way there is one whose
\* get_user gave None (no user document, or the read failed).
LoopGoesOn(failing) ==
    /\ IsSuffix(sweep'.expired_users, Tail(sweep.expired_users))
    /\ \A i \in 1..(Len(sweep.expired_users) - 1 - Len(sweep'.expired_users)) :
          Tail(sweep.expired_users)[i] \notin DOMAIN users
          \/ Tail(sweep.expired_users)[i] \in failing

\* C11, as claimed: when ban_chat_member or a store call for the current
\* user of the sweep fails, the sweep goes on with the other users and the
\* failing user's records are left as they were.
C11_FailureLeavesRecords ==
    [][/\ \A failing \in SUBSET UserIds :
             sweep_ban(FALSE, 0, TRUE, failing)
             => RecordsOf(sweep.user_id)' = RecordsOf(sweep.user_id) /\ LoopGoesOn(failing)
       /\ \A setOk \in Bool, remFail \in 0..2 :
             (sweep_ban(TRUE, remFail, setOk, {}) /\ (remFail # 0 \/ ~setOk))
             => /\ RecordsOf(sweep.user_id)' = RecordsOf(sweep.user_id)
                /\ sweep'.pc = "notify" /\ sweep'.expired_users = sweep.expired_users]_vars

\* C11, amended: no failure for one user ends the sweep.  When
\* ban_chat_member raises, the store is left as it was and the loop goes on
\* with the next id; when remove_subscription or set_user_banned fails
\* after the ban, the loop goes on as well and no other user's records
\* change, while the failing user's own records may be partly updated.
C11_FailureNeverEndsSweep ==
    [][/\ \A failing \in SUBSET UserIds :
             /\ sweep_ban(FALSE, 0, TRUE, failing)
                   => /\ UNCHANGED store
                      /\ LoopGoesOn(failing)
                      /\ sweep'.pc # "idle" => sweep.user_id \in sweep'.failed
             /\ sweep_notify(failing) => UNCHANGED store /\ LoopGoesOn(failing)
       /\ \A setOk \in Bool, remFail \in 0..2 :
             (sweep_ban(TRUE, remFail, setOk, {}) /\ (remFail # 0 \/ ~setOk))
             => /\ sweep'.pc = "notify" /\ sweep'.expired_users = sweep.expired_users
                /\ \A u \in UserIds \ {sweep.user_id} : RecordsOf(u)' = RecordsOf(u)]_vars

\* The sweep stands at the ban of a user after the ban of another user of
\* the same list raised, that user's subscription still in the store.
C11_Witness ==
    /\ sweep.pc = "ban"
    /\ sweep.failed # {}
    /\ sweep.user_id \notin sweep.failed
    /\ \A u \in sweep.failed : u \in DOMAIN subscriptions /\ u \in DOMAIN users /\ ~users[u].is_banned

\* A hyperlink entity in the text or in the caption.
HasLink(message) ==
    \E e \in Range(message.entities) \cup Range(message.caption_entities) :
        e \in {"url", "text_link"}

\* One of the six banned terms in the lower-cased text or caption.
HasTerm(message) ==
    \E term \in suspicious_terms, t \in {message.text, message.caption} :
        Contains(lower(t), term)

Expected(message) ==
    IF message.forward THEN "Forwarded message"
    ELSE IF HasLink(message) THEN "External link"
    ELSE IF HasTerm(message) THEN "Suspicious content"
    ELSE NoViolation

\* C12: classification is total and deterministic with first-match
\* priority: forwarded, then external link, then suspicious content; a
\* message of no class starts no violation handling and changes no state
\* of the store or of the chat.
C12_FirstMatchClassification ==
    [][tasks[1].pc = "idle"
       => \A m \in {r \in RichMessages : r.from # ADMIN_ID}, getOk \in Bool :
             handle_message(1, m, getOk)
             => /\ UNCHANGED <<store, group_id, sweep, reply>>
                /\ IF Expected(m) = NoViolation
                   THEN tasks'[1].pc = "idle" /\ tasks'[1].returned = NoViolation
                   ELSE /\ tasks'[1].pc = "delete"
                        /\ tasks'[1].reason = Expected(m)
                        /\ tasks'[1].user = m.from]_vars

\* Violation handling started for a message classified by its banned term,
\* the last class in the priority order.
C12_Witness ==
    /\ tasks[1].pc = "delete" /\ tasks[1].reason = "Suspicious content" /\ tasks[1].user = 1

\* C13: a message of the administrator never starts violation handling,
\* whatever it contains: the handler returns at once, the store is left as
\* it was, and no run and no Warning ever carries the administrator's id.
C13_AdminExempt ==
    /\ [](/\ \A p \in Slots : tasks[p].user # ADMIN_ID
          /\ \A d \in BagToSet(warnings) : d.user_id # ADMIN_ID)
    /\ [][tasks[1].pc = "idle"
          => \A m \in {r \in RichMessages : r.from = ADMIN_ID}, getOk \in Bool :
                handle_message(1, m, getOk)
                => /\ UNCHANGED <<store, group_id, sweep, reply>>
                   /\ tasks'[1].pc = "idle" /\ tasks'[1].returned = "admin"]_vars

\* The handler returned at line 388 for a message of the administrator
\* while user 1 has a record and a Warning.
C13_Witness ==
    /\ tasks[1].pc = "idle" /\ tasks[1].returned = "admin"
    /\ 1 \in DOMAIN users
    /\ NumWarnings(warnings, 1) >= 1

\* The reasons of the automatic detections of handle_message.
AutomaticReasons == {"Forwarded message", "External link", "Suspicious content"}

\* C14: every Warning record of an automatically detected violation carries
\* the issuing admin id 0.
C14_AutomaticWarningsCarryZero ==
    \A d \in BagToSet(warnings) : d.reason \in AutomaticReasons => d.admin_id = 0

\* C16: when the restrict call or the ban call fails, the run still goes on
\* to send the tier's notice into the chat.
C16_NoticeSentAfterFailedSanction ==
    [][/\ restrict_member(1, FALSE) => tasks'[1].pc = "send_mute"
       /\ ban_member(1, FALSE) => tasks'[1].pc = "send_ban"]_vars

\* What each operation of DatabaseManager returns from its except branch.
SafeDefault ==
    [get_user |-> "None", create_user |-> "None", update_user_warning |-> "False",
     reset_user_warnings |-> "None", set_user_muted |-> "None", set_user_banned |-> "None",
     add_warning |-> "None", get_user_warnings |-> "[]", add_subscription |-> "None",
     get_expired_subscriptions |-> "[]", remove_subscription |-> "None"]

\* C15: an operation of DatabaseManager during which the store failed
\* raises nothing to its caller and returns its safe default.
C15_StoreFailureGivesDefault ==
    (result.op \in DOMAIN SafeDefault /\ result.failed)
    => ~result.raised /\ result.value = SafeDefault[result.op]

\* get_user_warnings returned from its except branch for a user who has
\* Warning records.
C15_Witness ==
    /\ result.op = "get_user_warnings" /\ result.failed /\ ~result.raised
    /\ NumWarnings(warnings, 1) >= 1

\* C20: create_user for an id that already has a user document leaves the
\* users collection as it was, warning_count, flags and subscription_expiry
\* of the document included.
C20_CreateExistingIsNoOp ==
    [][\A user_id \in One, ok \in Bool :
          (call_create_user(user_id, ok) /\ user_id \in DOMAIN users)
          => UNCHANGED store]_vars

\* create_user returned for a user whose document holds two warnings, the
\* muted flag and a subscription.
C20_Witness ==
    /\ result.op = "create_user" /\ ~result.failed
    /\ 1 \in DOMAIN users
    /\ users[1].warning_count = 2 /\ users[1].is_muted
    /\ users[1].subscription_expiry # None

\* C17, as claimed: when a storage operation throws during the
\* administrator's stats command, the handler replies with the generic
\* failure message and raises nothing, and the bot stays ready for the next
\* event.
C17_StatsFailureReplies ==
    [][\A sendOk, errSendOk \in Bool :
          admin_stats(1, ADMIN_ID, FALSE, sendOk, errSendOk)
          => /\ reply' = "Error fetching statistics"
             /\ ~result'.raised
             /\ tasks'[1].pc = "idle" /\ UNCHANGED <<store, group_id, sweep>>]_vars

\* C17, amended: when a storage operation throws during the stats command,
\* the handler tries to reply with the generic failure message; when that
\* reply is sent the handler returns normally, and when sending it fails
\* too the exception leaves the handler.  Either way the store is left as
\* it was and the bot stays ready for the next event.
C17_StatsFailureRepliesIfSendable ==
    [][\A sendOk, errSendOk \in Bool :
          admin_stats(1, ADMIN_ID, FALSE, sendOk, errSendOk)
          => /\ IF errSendOk
                THEN reply' = "Error fetching statistics" /\ ~result'.raised
                ELSE reply' = reply /\ result'.raised
             /\ result'.op = "admin_stats" /\ result'.failed
             /\ tasks'[1].pc = "idle" /\ UNCHANGED <<store, group_id, sweep>>]_vars

\* The stats command answered a store failure with the failure message,
\* and the bot is handling a violation that came after it.
C17_Witness ==
    /\ result.op = "admin_stats" /\ result.failed /\ ~result.raised
    /\ reply = "Error fetching statistics"
    /\ tasks[1].pc = "delete"

\* The store after a complete sweep in which no call fails: every expired
\* subscription of a user with a user document is removed, that user's
\* subscription_expiry cleared and is_banned set.
SweepDone(us, subs) ==
    LET expired == {u \in DOMAIN subs \cap DOMAIN us : subs[u] < now}
    IN  [users |-> [u \in DOMAIN us |->
                      IF u \in expired
                      THEN [us[u] EXCEPT !.subscription_expiry = None, !.is_banned = TRUE]
                      ELSE us[u]],
         subscriptions |-> [u \in DOMAIN subs \ expired |-> subs[u]]]

\* C18: the per-user sweep step is idempotent.  A second remove_subscription
\* changes nothing; every step of the sweep in which no call fails, and the
\* abandoning of a sweep, keep the store a complete sweep ends in; and a
\* sweep started on the store a complete sweep left finds nobody to remove.
C18_SweepIdempotent ==
    /\ [](\A u \in UserIds :
            LET once == remove_subscription(users, subscriptions, u, 0)
            IN  remove_subscription(once.users, once.subscriptions, u, 0) = once)
    /\ [][/\ (sweep.pc = "ban"
              /\ sweep.user_id \in get_expired_subscriptions(subscriptions, TRUE)
              /\ sweep_ban(TRUE, 0, TRUE, {}))
             => SweepDone(users', subscriptions') = SweepDone(users, subscriptions)
          /\ (sweep.pc # "idle"
              /\ (restart \/ \E failing \in SUBSET UserIds :
                                sweep_notify(failing) \/ sweep_ban(FALSE, 0, TRUE, failing)))
             => UNCHANGED store
          /\ (sweep.pc = "idle" /\ group_id # GroupNone
              /\ SweepDone(users, subscriptions) = [users |-> users, subscriptions |-> subscriptions])
             => \A order \in UNION {Orders(S) : S \in SUBSET UserIds}, failing \in SUBSET UserIds :
                   check_expired_subscriptions(TRUE, order, failing)
                   => sweep'.pc = "idle" /\ UNCHANGED store]_vars

\* The process was restarted after the sweep removed user 1 and before it
\* removed user 2, whose subscription has expired as well.
C18_Witness ==
    /\ group_id = GroupNone /\ sweep.pc = "idle"
    /\ 1 \in DOMAIN users /\ users[1].is_banned /\ 1 \notin DOMAIN subscriptions
    /\ 2 \in DOMAIN users /\ ~users[2].is_banned
    /\ 2 \in DOMAIN subscriptions /\ subscriptions[2] < now

\* Exactly the ids whose Subscription record expires strictly before now.
ExpiredBefore(t) ==
    {u \in UserIds : u \in DOMAIN subscriptions /\ ~(subscriptions[u] >= t)}

\* C19: get_expired_subscriptions returns exactly the user ids whose
\* Subscription record has an expiry strictly before now, and the sweep
\* starts from that list.
C19_ExpiredExactly ==
    /\ [](get_expired_subscriptions(subscriptions, TRUE) = ExpiredBefore(now))
    /\ [][\A order \in UNION {Orders(S) : S \in SUBSET UserIds} :
             (check_expired_subscriptions(TRUE, order, {}) /\ group_id # GroupNone)
             => /\ Range(order) = ExpiredBefore(now)
                /\ \A u \in Range(sweep'.expired_users) :
                      u \in DOMAIN subscriptions /\ subscriptions[u] < now]_vars

\* The sweep stands at the ban of user 1, whose subscription expired
\* yesterday, while the subscription of user 2 expires today and is not in
\* the list.
C19_Witness ==
    /\ sweep.pc = "ban" /\ sweep.expired_users = <<1>>
    /\ 1 \in DOMAIN subscriptions /\ subscriptions[1] < now
    /\ 2 \in DOMAIN subscriptions /\ subscriptions[2] = now
    /\ 2 \in DOMAIN users

\* C21: whenever run() has left with an exception, main calls run() again,
\* whatever the number of failures before, and not before the sleep of
\* RestartDelay seconds is over; with a configuration value missing run() is
\* never called.
C21_SupervisorRestarts ==
    /\ [](supervisor.missing # {} => supervisor.pc \in {"validate", "returned"})
    /\ [][/\ (supervisor.pc = "run" /\ supervisor'.pc # "run")
             => (supervisor'.pc = "sleep" /\ supervisor'.slept = 0)
          /\ (supervisor.pc = "sleep" /\ supervisor'.pc # "sleep")
             => (supervisor'.pc = "run" /\ supervisor.slept = RestartDelay)]_vars
    /\ \A n \in 1..MaxFailures :
          (supervisor.pc = "sleep" /\ supervisor.failures = n /\ supervisor.slept = 0)
          ~> (supervisor.pc = "run" /\ supervisor.failures = n)

\* main is about to call run() after run() left with an exception twice or
\* more.
C21_Witness ==
    /\ supervisor.pc = "run" /\ supervisor.failures >= 2 /\ supervisor.missing = {}

\* C22: when a run of handle_violation, executed with no other run beside
\* it, notifies the administrator, the count it chose the tier by and
\* reports is the warning_count the store holds for the user.
C22_ReportedCountIsPersisted ==
    [][notify_violation(1)
       => /\ tasks[1].user \in DOMAIN users
          /\ users[tasks[1].user].warning_count = tasks[1].new_warning_count]_vars

\* C23: the flags follow the sanctions.  Once restrict_member has succeeded
\* for a user with a user document, the run sets is_muted and reports MUTE,
\* and likewise is_banned and BAN once ban_member has succeeded, in the
\* escalation path and in the sweep (no store call failing); and no step
\* sets a flag but the one that follows a successful restrict or ban of
\* that user.
C23_FlagsFollowSanctions ==
    [][/\ \A ok \in Bool :
             (send_mute(1, ok, TRUE) /\ tasks[1].user \in DOMAIN users)
             => users'[tasks[1].user].is_muted /\ tasks'[1].action = "MUTE"
       /\ \A ok \in Bool :
             (send_ban(1, ok, TRUE) /\ tasks[1].user \in DOMAIN users)
             => users'[tasks[1].user].is_banned /\ tasks'[1].action = "BAN"
       /\ (sweep_ban(TRUE, 0, TRUE, {}) /\ sweep.user_id \in DOMAIN users)
             => users'[sweep.user_id].is_banned
       /\ \A u \in DOMAIN users \cap DOMAIN users' :
             /\ (users'[u].is_muted /\ ~users[u].is_muted)
                => (tasks[1].pc = "send_mute" /\ tasks[1].user = u /\ tasks[1].sanctioned)
             /\ (users'[u].is_banned /\ ~users[u].is_banned)
                => \/ tasks[1].pc = "send_ban" /\ tasks[1].user = u /\ tasks[1].sanctioned
                   \/ sweep.pc = "ban" /\ sweep.user_id = u]_vars

\* C24, as claimed: in every state the warning_count of every user is at
\* most the number of Warning records of that user.
C24_CountAtMostRecords ==
    \A u \in DOMAIN users : users[u].warning_count <= NumWarnings(warnings, u)

\* C24, amended: every step that raises a user's warning_count raises it
\* by one and adds one Warning record for that user, unless the insert of
\* that record failed; no step removes a Warning record.  The count
\* exceeds the records by at most the number of failed inserts.
C24_IncrementComesWithRecord ==
    [][\A u \in DOMAIN users \cap DOMAIN users' :
          /\ users'[u].warning_count > users[u].warning_count
             => /\ users'[u].warning_count = users[u].warning_count + 1
                /\ \/ NumWarnings(warnings', u) = NumWarnings(warnings, u) + 1
                   \/ \E delOk \in Bool : record_warning(1, delOk, FALSE, TRUE)
          /\ NumWarnings(warnings', u) >= NumWarnings(warnings, u)]_vars

\* User 1 has three Warning records and a count of two: one increment
\* failed, no insert did.
C24_Witness ==
    /\ 1 \in DOMAIN users
    /\ users[1].warning_count = 2
    /\ NumWarnings(warnings, 1) = 3

\* C25: no step removes a user document, and no step sets is_muted or
\* is_banned of a user back to false: a flag that is true stays true,
\* through the passing of time and through the ban of a muted user.
C25_FlagsAndUsersStay ==
    [][\A u \in DOMAIN users :
          /\ u \in DOMAIN users'
          /\ users[u].is_muted => users'[u].is_muted
          /\ users[u].is_banned => users'[u].is_banned]_vars

\* User 1 was muted, then banned, and the clock has run to its end, past
\* the end of the mute: both flags are still set.
C25_Witness ==
    /\ 1 \in DOMAIN users
    /\ users[1].is_muted
    /\ users[1].is_banned
    /\ now = MaxTime

====
